---- MODULE Spec2Model ----
(***************************************************************************)
(* SimStack: three stateless HTTP simulators (queue, traffic, resource).   *)
(* Each endpoint is a POST /simulate handler that computes metrics from    *)
(* its validated input.  Python floats are modelled by exact rationals     *)
(* <<numerator, denominator>> in lowest terms with a positive denominator; *)
(* a float division by zero is the handler raising ZeroDivisionError.      *)
(***************************************************************************)
EXTENDS Integers, Sequences, FiniteSets, TLC

VARIABLES pc, endpoint, inp, metrics

vars == <<pc, endpoint, inp, metrics>>

(***************************************************************************)
(* Bounds of the input grids.                                              *)
(***************************************************************************)
MaxNeg == 2
MaxNum == 21
MaxDen == 2
MaxDensityNum == 5
MaxDensityDen == 4
MaxStaff == 60

(***************************************************************************)
(* Exact rational arithmetic standing in for float arithmetic.             *)
(***************************************************************************)
Abs(n) == IF n < 0 THEN -n ELSE n

RECURSIVE GCD(_, _)
GCD(a, b) == IF b = 0 THEN a ELSE GCD(b, a % b)

Rat(n, d) ==
    LET s == IF d < 0 THEN -1 ELSE 1
        g == GCD(Abs(n), Abs(d))
    IN  <<(s * n) \div g, (s * d) \div g>>

Zero == <<0, 1>>
One == <<1, 1>>

RatAdd(x, y) == Rat(x[1] * y[2] + y[1] * x[2], x[2] * y[2])

RatSub(x, y) == Rat(x[1] * y[2] - y[1] * x[2], x[2] * y[2])

RatMul(x, y) ==
    LET g1 == GCD(Abs(x[1]), y[2])
        g2 == GCD(Abs(y[1]), x[2])
    IN  Rat((x[1] \div g1) * (y[1] \div g2), (x[2] \div g2) * (y[2] \div g1))

RatInv(y) == Rat(y[2], y[1])

RatDiv(x, y) == RatMul(x, RatInv(y))

\* Comparison by integer parts first, then by the fractional parts.
RatLt(x, y) ==
    LET fx == x[1] \div x[2]
        fy == y[1] \div y[2]
    IN  IF fx # fy THEN fx < fy
        ELSE (x[1] - fx * x[2]) * y[2] < (y[1] - fy * y[2]) * x[2]

RatLe(x, y) == ~RatLt(y, x)

\* Python's max(a, b) and min(a, b): the first argument wins a tie.
max(a, b) == IF RatLt(a, b) THEN b ELSE a

min(a, b) == IF RatLt(b, a) THEN b ELSE a

\* Python's round(x, ndigits) with scale = 10^ndigits: nearest multiple of
\* 1/scale, ties to the even multiple.
round(x, scale) ==
    LET n == x[1] * scale
        q == n \div x[2]
        r == n - q * x[2]
        k == IF 2 * r < x[2] THEN q
             ELSE IF 2 * r > x[2] THEN q + 1
             ELSE IF q % 2 = 0 THEN q ELSE q + 1
    IN  Rat(k, scale)

\* math.isnan / math.isinf: an exact rational is never NaN nor infinite.
isnan(x) == x[2] = 0 /\ x[1] = 0

isinf(x) == x[2] = 0 /\ x[1] # 0

(***************************************************************************)
(* Input domains.                                                          *)
(***************************************************************************)
GridRates == {Rat(n, d) : n \in (-MaxNeg)..MaxNum, d \in 1..MaxDen}

\* Inputs off the grid: closed-form waits above the cap, and a queue length
\* that rounds up to the branch boundary.
EdgeInputs ==
    { <<Rat(9, 10), Rat(1, 1)>>,
      <<Rat(37, 20), Rat(2, 1)>>,
      <<Rat(3818, 1), Rat(4019, 1)>> }

QueueInputs == (GridRates \X GridRates) \cup EdgeInputs

Densities == {Rat(n, d) : n \in (-MaxNeg)..MaxDensityNum, d \in 1..MaxDensityDen}

Staffs == (-MaxStaff)..MaxStaff

(***************************************************************************)
(* Queue simulator (simulators/queue/app.py).                              *)
(***************************************************************************)
Rho(arrival_rate, service_rate) ==
    IF RatLt(Zero, service_rate) THEN RatDiv(arrival_rate, service_rate) ELSE Zero

\* The three-way branch: raised is the ZeroDivisionError of the normal
\* formulas, wait and queue_length the values the branch assigns.  Branch is
\* the code; the three variants before it are faulty versions (overload wait
\* in hours, overload threshold 0.99, wait without the service rate).
BranchWaitHours(rho, service_rate) ==
    IF RatLe(Rat(95, 100), rho)
    THEN [raised |-> FALSE, wait |-> Rat(4, 1), queue_length |-> Rat(50, 1)]
    ELSE IF RatLt(rho, Zero)
    THEN [raised |-> FALSE, wait |-> Zero, queue_length |-> Zero]
    ELSE IF RatMul(service_rate, RatSub(One, rho)) = Zero \/ RatSub(One, rho) = Zero
    THEN [raised |-> TRUE, wait |-> Zero, queue_length |-> Zero]
    ELSE [raised |-> FALSE,
          wait |-> RatDiv(rho, RatMul(service_rate, RatSub(One, rho))),
          queue_length |-> RatDiv(rho, RatSub(One, rho))]

BranchLateOverload(rho, service_rate) ==
    IF RatLe(Rat(99, 100), rho)
    THEN [raised |-> FALSE, wait |-> Rat(240, 1), queue_length |-> Rat(50, 1)]
    ELSE IF RatLt(rho, Zero)
    THEN [raised |-> FALSE, wait |-> Zero, queue_length |-> Zero]
    ELSE IF RatMul(service_rate, RatSub(One, rho)) = Zero \/ RatSub(One, rho) = Zero
    THEN [raised |-> TRUE, wait |-> Zero, queue_length |-> Zero]
    ELSE [raised |-> FALSE,
          wait |-> RatDiv(rho, RatMul(service_rate, RatSub(One, rho))),
          queue_length |-> RatDiv(rho, RatSub(One, rho))]

BranchNoServiceRate(rho, service_rate) ==
    IF RatLe(Rat(95, 100), rho)
    THEN [raised |-> FALSE, wait |-> Rat(240, 1), queue_length |-> Rat(50, 1)]
    ELSE IF RatLt(rho, Zero)
    THEN [raised |-> FALSE, wait |-> Zero, queue_length |-> Zero]
    ELSE IF RatMul(service_rate, RatSub(One, rho)) = Zero \/ RatSub(One, rho) = Zero
    THEN [raised |-> TRUE, wait |-> Zero, queue_length |-> Zero]
    ELSE [raised |-> FALSE,
          wait |-> RatDiv(rho, RatSub(One, rho)),
          queue_length |-> RatDiv(rho, RatSub(One, rho))]

Branch(rho, service_rate) ==
    IF RatLe(Rat(95, 100), rho)
    THEN [raised |-> FALSE, wait |-> Rat(240, 1), queue_length |-> Rat(50, 1)]
    ELSE IF RatLt(rho, Zero)
    THEN [raised |-> FALSE, wait |-> Zero, queue_length |-> Zero]
    ELSE IF RatMul(service_rate, RatSub(One, rho)) = Zero \/ RatSub(One, rho) = Zero
    THEN [raised |-> TRUE, wait |-> Zero, queue_length |-> Zero]
    ELSE [raised |-> FALSE,
          wait |-> RatDiv(rho, RatMul(service_rate, RatSub(One, rho))),
          queue_length |-> RatDiv(rho, RatSub(One, rho))]

WaitMinutesNoCap(wait) ==
    LET wait_minutes == max(Zero, RatMul(wait, Rat(60, 1)))
    IN  IF isnan(wait_minutes) \/ isinf(wait_minutes) THEN Rat(240, 1) ELSE wait_minutes

WaitMinutes(wait) ==
    LET wait_minutes == max(Zero, min(RatMul(wait, Rat(60, 1)), Rat(300, 1)))
    IN  IF isnan(wait_minutes) \/ isinf(wait_minutes) THEN Rat(240, 1) ELSE wait_minutes

UtilizationNoFloor(rho) == min(rho, Rat(99, 100))

UtilizationCapOne(rho) == max(Zero, min(rho, One))

Utilization(rho) == max(Zero, min(rho, Rat(99, 100)))

QueueLength(queue_length) ==
    max(Zero, min(IF ~isnan(queue_length) THEN queue_length ELSE Rat(50, 1), Rat(100, 1)))

QueueRaises(arrival_rate, service_rate) ==
    Branch(Rho(arrival_rate, service_rate), service_rate).raised

QueueMetrics(arrival_rate, service_rate) ==
    LET rho == Rho(arrival_rate, service_rate)
        b == Branch(rho, service_rate)
    IN  [avg_wait_time_min |-> round(WaitMinutes(b.wait), 100),
         utilization |-> round(Utilization(rho), 1000),
         avg_queue_length |-> round(QueueLength(b.queue_length), 100)]

(***************************************************************************)
(* Traffic simulator (simulators/traffic/app.py).                          *)
(***************************************************************************)
TrafficMetrics(density) ==
    LET speed == max(Rat(5, 1),
                     RatMul(Rat(60, 1), RatSub(One, min(One, max(Zero, density)))))
        throughput == RatMul(speed, Rat(10, 1))
    IN  [avg_speed_kmh |-> speed, throughput_veh_per_hr |-> throughput]

(***************************************************************************)
(* Resource simulator (simulators/resource/app.py).                        *)
(***************************************************************************)
ResourceMetrics(staff) ==
    LET coverage == RatMul(Rat(staff, 1), Rat(8, 10))
        satisfaction == min(One, RatAdd(Rat(5, 10), RatDiv(Rat(staff, 1), Rat(100, 1))))
    IN  [coverage_units |-> coverage, satisfaction |-> satisfaction]

(***************************************************************************)
(* State machine: a request body is validated into the input model, then   *)
(* the endpoint's handler runs to a response or to an exception.           *)
(***************************************************************************)
Init ==
    /\ pc = "idle"
    /\ endpoint = "none"
    /\ inp = <<>>
    /\ metrics = <<>>

QueueInput ==
    /\ pc # "received"
    /\ \E p \in QueueInputs :
          inp' = [arrival_rate |-> p[1], service_rate |-> p[2]]
    /\ endpoint' = "queue"
    /\ pc' = "received"
    /\ metrics' = <<>>

TrafficInput ==
    /\ pc # "received"
    /\ \E d \in Densities : inp' = [density |-> d]
    /\ endpoint' = "traffic"
    /\ pc' = "received"
    /\ metrics' = <<>>

ResourceInput ==
    /\ pc # "received"
    /\ \E n \in Staffs : inp' = [staff |-> n]
    /\ endpoint' = "resource"
    /\ pc' = "received"
    /\ metrics' = <<>>

QueueSimulate ==
    /\ pc = "received"
    /\ endpoint = "queue"
    /\ IF QueueRaises(inp.arrival_rate, inp.service_rate)
       THEN /\ pc' = "raised"
            /\ metrics' = <<>>
       ELSE /\ pc' = "returned"
            /\ metrics' = QueueMetrics(inp.arrival_rate, inp.service_rate)
    /\ UNCHANGED <<endpoint, inp>>

TrafficSimulate ==
    /\ pc = "received"
    /\ endpoint = "traffic"
    /\ pc' = "returned"
    /\ metrics' = TrafficMetrics(inp.density)
    /\ UNCHANGED <<endpoint, inp>>

ResourceSimulate ==
    /\ pc = "received"
    /\ endpoint = "resource"
    /\ pc' = "returned"
    /\ metrics' = ResourceMetrics(inp.staff)
    /\ UNCHANGED <<endpoint, inp>>

Next ==
    \/ QueueInput
    \/ TrafficInput
    \/ ResourceInput
    \/ QueueSimulate
    \/ TrafficSimulate
    \/ ResourceSimulate

Spec == Init /\ [][Next]_vars

(***************************************************************************)
(* Vocabulary of the properties.  The closed forms are written directly in *)
(* terms of the two rates, independently of the handler's own computation. *)
(***************************************************************************)
QueueReturned == endpoint = "queue" /\ pc = "returned"

QueueFinished == endpoint = "queue" /\ pc \in {"returned", "raised"}

Between(lo, x, hi) == RatLe(lo, x) /\ RatLe(x, hi)

Within(x, y, tol) == RatLe(RatSub(x, y), tol) /\ RatLe(RatSub(y, x), tol)

PositiveService == inp.service_rate[1] > 0

\* arrival_rate / service_rate, for service_rate > 0
Ratio == Rat(inp.arrival_rate[1] * inp.service_rate[2],
             inp.arrival_rate[2] * inp.service_rate[1])

UnmodifiedRho == IF PositiveService THEN Ratio ELSE Zero

Overload == PositiveService /\ RatLe(Rat(19, 20), Ratio)

NormalLoad == PositiveService /\ RatLe(Zero, Ratio) /\ RatLt(Ratio, Rat(19, 20))

\* 60 * rho / (service_rate * (1 - rho)) = 60 * a / (s * (s - a))
ClosedWaitMinutes ==
    RatDiv(RatMul(Rat(60, 1), inp.arrival_rate),
           RatMul(inp.service_rate, RatSub(inp.service_rate, inp.arrival_rate)))

\* rho / (1 - rho) = a / (s - a)
ClosedQueueLength ==
    RatDiv(inp.arrival_rate, RatSub(inp.service_rate, inp.arrival_rate))

ClampedRho ==
    IF RatLt(UnmodifiedRho, Zero) THEN Zero
    ELSE IF RatLt(Rat(99, 100), UnmodifiedRho) THEN Rat(99, 100)
    ELSE UnmodifiedRho

AllZero ==
    /\ metrics.avg_wait_time_min = Zero
    /\ metrics.utilization = Zero
    /\ metrics.avg_queue_length = Zero

\* C1: the queue simulate operation is total: on every input pair, zero and
\* negative service rates included, it returns metrics and never ends in an
\* error such as a division by zero.
C1_QueueSimulateTotal == endpoint = "queue" => pc # "raised"

\* C2: every result the queue simulate operation returns has
\* 0 <= avg_wait_time_min <= 300, 0 <= utilization <= 0.99 and
\* 0 <= avg_queue_length <= 100, each a finite number.
C2_QueueMetricsInRange ==
    QueueReturned =>
        /\ Between(Zero, metrics.avg_wait_time_min, Rat(300, 1))
        /\ Between(Zero, metrics.utilization, Rat(99, 100))
        /\ Between(Zero, metrics.avg_queue_length, Rat(100, 1))
        /\ \A f \in DOMAIN metrics : metrics[f][2] > 0

\* a returned result whose closed-form wait lies above the cap
C2_WitnessCapActs ==
    /\ QueueReturned
    /\ NormalLoad
    /\ RatLt(Rat(300, 1), ClosedWaitMinutes)
    /\ metrics.avg_wait_time_min = Rat(300, 1)

\* C3: on every overload input (service_rate > 0 and
\* arrival_rate / service_rate >= 0.95) the result has avg_wait_time_min
\* exactly 240.0 and avg_queue_length exactly 50.0.
C3_OverloadIs240 ==
    (QueueReturned /\ Overload) =>
        /\ metrics.avg_wait_time_min = Rat(240, 1)
        /\ metrics.avg_queue_length = Rat(50, 1)

\* C4: on every input with service_rate <= 0 the operation returns
\* utilization, avg_wait_time_min and avg_queue_length all equal to 0.0.
C4_NonPositiveServiceAllZero ==
    (QueueFinished /\ ~PositiveService) => (pc = "returned" /\ AllZero)

\* C5 (as stated): in the normal branch the three outputs equal the
\* closed-form M/M/1 values up to the reporting rounding.
C5_MatchesClosedForm ==
    (QueueReturned /\ NormalLoad) =>
        /\ Within(metrics.avg_wait_time_min, ClosedWaitMinutes, Rat(1, 200))
        /\ Within(metrics.utilization, Ratio, Rat(1, 2000))
        /\ Within(metrics.avg_queue_length, ClosedQueueLength, Rat(1, 200))

\* C5 (amended): in the normal branch avg_wait_time_min equals the closed-form
\* wait capped at 300 minutes, and utilization and avg_queue_length equal
\* their closed forms, each up to the reporting rounding.
C5_MatchesCappedClosedForm ==
    (QueueReturned /\ NormalLoad) =>
        /\ Within(metrics.avg_wait_time_min,
                  IF RatLt(Rat(300, 1), ClosedWaitMinutes)
                  THEN Rat(300, 1) ELSE ClosedWaitMinutes,
                  Rat(1, 200))
        /\ Within(metrics.utilization, Ratio, Rat(1, 2000))
        /\ Within(metrics.avg_queue_length, ClosedQueueLength, Rat(1, 200))

\* a normal-branch result with a positive closed-form wait under the cap
C5_WitnessNormalBranch ==
    /\ QueueReturned
    /\ NormalLoad
    /\ RatLt(Zero, ClosedWaitMinutes)
    /\ RatLt(ClosedWaitMinutes, Rat(300, 1))
    /\ metrics.avg_wait_time_min = Rat(6, 1)

\* C6: on every input with service_rate > 0 and arrival_rate < 0 the result
\* has avg_wait_time_min, utilization and avg_queue_length all equal to 0.0.
C6_NegativeRhoAllZero ==
    (QueueFinished /\ PositiveService /\ RatLt(inp.arrival_rate, Zero)) =>
        (pc = "returned" /\ AllZero)

\* a returned result for a negative arrival rate and a positive service rate
C6_WitnessNegativeArrival ==
    /\ QueueReturned
    /\ PositiveService
    /\ RatLt(Ratio, Zero)

\* C7 (as stated): the reported utilization is min(max(rho, 0), 0.99) of the
\* unmodified rho, whichever branch set the wait and the queue length.
C7_UtilizationIsClampedRho ==
    QueueReturned => metrics.utilization = ClampedRho

\* C7 (amended): the reported utilization is min(max(rho, 0), 0.99) of the
\* unmodified rho rounded to three decimals, whichever branch ran: within
\* 0.0005 of the clamped rho, a multiple of 0.001, and exactly 0.99 for
\* every rho above 0.99.
C7_UtilizationIsRoundedClampedRho ==
    QueueReturned =>
        /\ Within(metrics.utilization, ClampedRho, Rat(1, 2000))
        /\ 1000 % metrics.utilization[2] = 0
        /\ (1000 % ClampedRho[2] = 0 => metrics.utilization = ClampedRho)
        /\ (RatLt(Rat(99, 100), UnmodifiedRho) => metrics.utilization = Rat(99, 100))

\* an overload result with 0.95 <= rho <= 0.99 whose reported utilization
\* differs from rho by the rounding
C7_WitnessOverloadRounded ==
    /\ QueueReturned
    /\ Overload
    /\ RatLe(Ratio, Rat(99, 100))
    /\ metrics.utilization # Ratio
    /\ metrics.avg_queue_length = Rat(50, 1)

\* C8: the traffic result always has 5 <= avg_speed_kmh <= 60 and
\* throughput_veh_per_hr = 10 * avg_speed_kmh, and the resource result always
\* has 0 <= satisfaction <= 1, negative staff included.
C8_DisplaySafeRanges ==
    /\ (endpoint = "traffic" /\ pc = "returned") =>
          /\ Between(Rat(5, 1), metrics.avg_speed_kmh, Rat(60, 1))
          /\ metrics.throughput_veh_per_hr = RatMul(Rat(10, 1), metrics.avg_speed_kmh)
    /\ (endpoint = "resource" /\ pc = "returned") =>
          Between(Zero, metrics.satisfaction, One)

C10_QueueLengthBelow19Or50 ==
    QueueReturned =>
        \/ /\ RatLe(Zero, metrics.avg_queue_length)
           /\ RatLt(metrics.avg_queue_length, Rat(19, 1))
        \/ metrics.avg_queue_length = Rat(50, 1)

\* C10 (amended): every returned avg_queue_length is in [0, 19] or is exactly
\* 50, the value 19.0 arising only by rounding a normal-branch length below
\* 19; nothing in (19, 50) or above 50 is returned, and the length handed to
\* the upper clamp at 100 is never above 100.
C10_QueueLengthAtMost19Or50 ==
    QueueReturned =>
        /\ \/ Between(Zero, metrics.avg_queue_length, Rat(19, 1))
           \/ metrics.avg_queue_length = Rat(50, 1)
        /\ metrics.avg_queue_length = Rat(19, 1) =>
              (NormalLoad /\ RatLt(ClosedQueueLength, Rat(19, 1)))
        /\ metrics.avg_queue_length = Rat(50, 1) <=> Overload
        /\ RatLe(Branch(Rho(inp.arrival_rate, inp.service_rate),
                        inp.service_rate).queue_length, Rat(100, 1))

\* a normal-branch result whose queue length rounds up to 19.0
C10_WitnessRoundsTo19 ==
    /\ QueueReturned
    /\ NormalLoad
    /\ metrics.avg_queue_length = Rat(19, 1)

====
